---- MODULE Spec2Model ----
(***************************************************************************)
(* Model of findUnusedLambdas.py: one reconciliation run.                  *)
(*                                                                         *)
(* The run fetches the Lambda inventory, builds three Athena statements,   *)
(* runs them one after the other (submit, poll, fetch results), extracts   *)
(* the used function ARNs from the rows of the last result and prints the  *)
(* inventory minus the used set.  The Lambda service and the Athena engine *)
(* are the environment: the inventory, the progress of each Athena job and *)
(* the rows of the usage query are chosen nondeterministically.            *)
(*                                                                         *)
(* A function ARN is abstracted to its function name; a result row is      *)
(* abstracted to the VarCharValue of its column 0.                         *)
(***************************************************************************)
EXTENDS Integers, Sequences, FiniteSets, TLC

\* ---------------------------------------------------------------- bounds
\* longest inventory list_functions returns
MaxInv == 2
\* most data rows (after the header) in the result of the usage query
MaxRows == 2
\* most status checks of one job that repeat the previous observation
MaxPolls == 2

\* ------------------------------------------------------------ identifiers
\* Function identifiers.  Two of them differ only by case.
Idents == {"A", "a", "B", "c"}

\* ord() of the (single) character of an identifier
CodePoint == [x \in {"A", "a", "B", "b", "c"} |->
                CASE x = "A" -> 65 [] x = "B" -> 66
                  [] x = "a" -> 97 [] x = "b" -> 98 [] x = "c" -> 99]

\* str.lower
Lower == [x \in Idents |-> CASE x = "A" -> "a" [] x = "a" -> "a"
                              [] x = "B" -> "b" [] x = "c" -> "c"]

\* faulty variant: the sort key without lower-casing
SortKeyRaw(x) == CodePoint[x]

\* key=str.lower of difference_list.sort; strings compare by code point
SortKey(x) == CodePoint[Lower[x]]

\* column 0 of the header row of the usage query result
HeaderCell == "function_name"

Range(s) == {s[i] : i \in 1..Len(s)}

SeqsUpTo(S, n) == UNION {[1..k -> S] : k \in 0..n}

\* list_functions: each function of the region once (an ARN names one
\* function), in any order
Inventories == {s \in SeqsUpTo(Idents, MaxInv) :
                  \A i, j \in 1..Len(s) : i # j => s[i] # s[j]}

\* data rows the engine may return for the usage query: any values, repeated
\* or not, in the inventory or not
RowSeqs == SeqsUpTo(Idents, MaxRows)

\* ------------------------------------------------------------- statements
CreateTable == "create_table_query"
CreatePartition == "create_partition_query"
LastRun == "last_run_query"

\* the intended order of the three statements
Sequence3 == <<CreateTable, CreatePartition, LastRun>>

\* faulty variant: the first two statements exchanged
BuildSwapped(arns) == <<CreatePartition, CreateTable, LastRun>>

\* build_query_strings: the returned tuple
build_query_strings(arns) == <<CreateTable, CreatePartition, LastRun>>

Terminal == {"SUCCEEDED", "FAILED"}

VARIABLES
  pc,                    \* position of the run
  function_arns,         \* list returned by retrieve_function_arns
  retrieve_count,        \* retrieve_function_arns.count
  queries,               \* tuple returned by build_query_strings
  qi,                    \* index of the query the comprehension is at
  jobs,                  \* the engine's jobs, in submission order
  execution_status,      \* run_query's local execution_status
  observed,              \* the statuses the checks of the current job returned
  outcome,               \* per job: the status its last check returned
  fetched,               \* per job: number of get_query_results calls
  query_results,         \* list built by the comprehension
  set_of_functions_used, \* set extracted from the last result
  used_count,            \* get_set_of_function_arns_from_result_set.count
  unusedcount,           \* the printed count
  difference_list,       \* the printed list
  exit_code              \* process exit status, -1 while running

vars == <<pc, function_arns, retrieve_count, queries, qi, jobs,
          execution_status, observed, outcome, fetched, query_results,
          set_of_functions_used, used_count, unusedcount,
          difference_list, exit_code>>

NoResult == [none |-> TRUE, Rows |-> <<>>]

Init ==
  /\ pc = "retrieve"
  /\ function_arns = <<>>
  /\ retrieve_count = 0
  /\ queries = <<>>
  /\ qi = 0
  /\ jobs = <<>>
  /\ execution_status = "None"
  /\ observed = <<>>
  /\ outcome = <<>>
  /\ fetched = <<>>
  /\ query_results = <<>>
  /\ set_of_functions_used = {}
  /\ used_count = 0
  /\ unusedcount = 0
  /\ difference_list = <<>>
  /\ exit_code = -1

\* faulty variant: the empty inventory is not detected
NeverExits(count) == FALSE

\* retrieve_function_arns: the test guarding sys.exit()
EmptyInventory(count) == count = 0

\* retrieve_function_arns; sys.exit() without argument is exit status 0
RetrieveFunctionArns ==
  /\ pc = "retrieve"
  /\ \E inv \in Inventories :
       /\ function_arns' = inv
       /\ retrieve_count' = Len(inv)
       /\ IF EmptyInventory(Len(inv))
            THEN pc' = "done" /\ exit_code' = 0
            ELSE pc' = "build" /\ exit_code' = exit_code
  /\ UNCHANGED <<queries, qi, jobs, execution_status, observed, outcome,
                 fetched,
                 query_results, set_of_functions_used, used_count,
                 unusedcount, difference_list>>

\* main: build_query_strings call, then the comprehension starts
BuildQueryStrings ==
  /\ pc = "build"
  /\ queries' = build_query_strings(function_arns)
  /\ qi' = 1
  /\ pc' = "start_query"
  /\ UNCHANGED <<function_arns, retrieve_count, jobs, execution_status,
                 observed, outcome, fetched, query_results,
                 set_of_functions_used,
                 used_count, unusedcount, difference_list, exit_code>>

\* run_query: start_query_execution, execution_status = None
StartQueryExecution ==
  /\ pc = "start_query"
  /\ jobs' = Append(jobs, [sql |-> queries[qi], status |-> "RUNNING"])
  /\ observed' = <<>>
  /\ outcome' = Append(outcome, "None")
  /\ fetched' = Append(fetched, 0)
  /\ execution_status' = "None"
  /\ pc' = "get_execution"
  /\ UNCHANGED <<function_arns, retrieve_count, queries, qi, query_results,
                 set_of_functions_used, used_count, unusedcount,
                 difference_list, exit_code>>

\* the engine finishes a running job
EngineStep ==
  /\ \E j \in 1..Len(jobs) :
       /\ jobs[j].status = "RUNNING"
       /\ \E s \in Terminal : jobs' = [jobs EXCEPT ![j].status = s]
  /\ UNCHANGED <<pc, function_arns, retrieve_count, queries, qi,
                 execution_status, observed, outcome, fetched, query_results,
                 set_of_functions_used, used_count, unusedcount,
                 difference_list, exit_code>>

\* faulty variant: a FAILED status does not end run_query
NeverReturns(s) == FALSE

\* run_query: the FAILED test that returns None
ReturnsOnFailed(s) == s = "FAILED"

\* faulty variant: the loop does not stop on SUCCEEDED
WhileTrue(s) == TRUE

\* run_query: the loop condition
WhileCond(s) == s # "SUCCEEDED"

\* the job run_query is polling: the one it submitted last
cur == Len(jobs)

\* the comprehension moves to the next query, or main continues
Advance ==
  IF qi < Len(queries)
    THEN qi' = qi + 1 /\ pc' = "start_query"
    ELSE qi' = qi /\ pc' = "extract"

\* run_query: get_query_execution and the FAILED test.  The loop itself is
\* unbounded; the model stops a check that would repeat the previous
\* observation once MaxPolls checks of the job were made.
GetQueryExecution ==
  /\ pc = "get_execution"
  /\ jobs[cur].status # execution_status \/ Len(observed) < MaxPolls
  /\ execution_status' = jobs[cur].status
  /\ observed' = Append(observed, jobs[cur].status)
  /\ outcome' = [outcome EXCEPT ![cur] = jobs[cur].status]
  /\ IF ReturnsOnFailed(jobs[cur].status)
       THEN query_results' = Append(query_results, NoResult) /\ Advance
       ELSE query_results' = query_results /\ qi' = qi /\ pc' = "sleep"
  /\ UNCHANGED <<function_arns, retrieve_count, queries, jobs, fetched,
                 set_of_functions_used, used_count, unusedcount,
                 difference_list, exit_code>>

\* run_query: print("Running"), time.sleep(5), loop test
Sleep ==
  /\ pc = "sleep"
  /\ pc' = IF WhileCond(execution_status) THEN "get_execution"
                                          ELSE "get_results"
  /\ UNCHANGED <<function_arns, retrieve_count, queries, qi, jobs,
                 execution_status, observed, outcome, fetched, query_results,
                 set_of_functions_used, used_count, unusedcount,
                 difference_list, exit_code>>

\* rows the engine returns: the usage query yields a header and data rows,
\* the two DDL statements yield no rows
ResultSets(sql) ==
  IF sql = LastRun THEN {<<HeaderCell>> \o r : r \in RowSeqs} ELSE {<<>>}

\* run_query: get_query_results
GetQueryResults ==
  /\ pc = "get_results"
  /\ \E rs \in ResultSets(jobs[cur].sql) :
       query_results' = Append(query_results, [none |-> FALSE, Rows |-> rs])
  /\ fetched' = [fetched EXCEPT ![cur] = @ + 1]
  /\ Advance
  /\ UNCHANGED <<function_arns, retrieve_count, queries, jobs,
                 execution_status, observed, outcome, set_of_functions_used,
                 used_count, unusedcount, difference_list, exit_code>>

\* result_set[1:]
Slice1(result_set) == SubSeq(result_set, 2, Len(result_set))

\* get_set_of_function_arns_from_result_set: the returned set
get_set_of_function_arns_from_result_set(result_set) ==
  Range(Slice1(result_set))

\* get_set_of_function_arns_from_result_set.count after the call
get_set_count(result_set) == Len(Slice1(result_set))

\* faulty variant: the count is off by one
UnusedCountOffByOne(rc, uc) == rc - uc + 1

\* main: unusedcount
UnusedCount(rc, uc) == rc - uc

\* list(set) in any order, then the stable sort by key: every arrangement
\* of S whose keys are non-decreasing
SortedLists(S) ==
  {s \in [1..Cardinality(S) -> S] :
     /\ Range(s) = S
     /\ \A i, j \in 1..Len(s) : i < j => SortKey(s[i]) <= SortKey(s[j])}

\* main after the comprehension: query_results[-1]['ResultSet']['Rows']
\* (a None last result raises TypeError, which ends the process with
\* status 1), the extraction, the count, the difference list, its sort,
\* and the return
Reconcile ==
  /\ pc = "extract"
  /\ pc' = "done"
  /\ LET last == query_results[Len(query_results)] IN
       IF last.none
         THEN /\ exit_code' = 1
              /\ UNCHANGED <<set_of_functions_used, used_count,
                             unusedcount, difference_list>>
         ELSE /\ exit_code' = 0
              /\ set_of_functions_used' =
                   get_set_of_function_arns_from_result_set(last.Rows)
              /\ used_count' = get_set_count(last.Rows)
              /\ unusedcount' = UnusedCount(retrieve_count, used_count')
              /\ difference_list' \in
                   SortedLists(Range(function_arns) \ set_of_functions_used')
  /\ UNCHANGED <<function_arns, retrieve_count, queries, qi, jobs,
                 execution_status, observed, outcome, fetched,
                 query_results>>

\* the steps of the script (everything but the engine)
Run ==
  \/ RetrieveFunctionArns
  \/ BuildQueryStrings
  \/ StartQueryExecution
  \/ GetQueryExecution
  \/ Sleep
  \/ GetQueryResults
  \/ Reconcile

Next ==
  \/ RetrieveFunctionArns
  \/ BuildQueryStrings
  \/ StartQueryExecution
  \/ GetQueryExecution
  \/ Sleep
  \/ GetQueryResults
  \/ Reconcile
  \/ EngineStep

Spec == Init /\ [][Next]_vars

\* the script is a single sequential process that always takes its next step
FairSpec == Spec /\ WF_vars(Run)

\* ------------------------------------------------------------ properties
Last(s) == s[Len(s)]

\* the run printed its report and returned
Reported == pc = "done" /\ retrieve_count > 0 /\ exit_code = 0

\* the rows of the usage query result the run read
UsageRows == query_results[Len(query_results)].Rows

\* I: the inventory as a set
InventorySet == Range(function_arns)

\* U: the column-0 values of the rows after the header
UsedSet == {UsageRows[i] : i \in 2..Len(UsageRows)}

\* C1: statement k+1 is submitted only if the last status check of
\* statement k observed SUCCEEDED; after a FAILED observation nothing
\* further is submitted.
C1_FailedShortCircuits ==
  \A j \in 2..Len(jobs) : outcome[j - 1] = "SUCCEEDED"

\* C2: a finished run has exit code 0 only if the inventory was non-empty
\* and all three jobs were observed SUCCEEDED; an empty inventory or a
\* FAILED job gives a non-zero exit code.
C2_ExitCodes ==
  pc = "done" =>
    /\ exit_code = 0 =>
         /\ retrieve_count > 0
         /\ Len(outcome) = Len(Sequence3)
         /\ \A j \in 1..Len(outcome) : outcome[j] = "SUCCEEDED"
    /\ retrieve_count = 0 => exit_code # 0
    /\ (\E j \in 1..Len(outcome) : outcome[j] = "FAILED") => exit_code # 0

\* C3: once the inventory fetch has returned zero identifiers, no query
\* strings are built and no job is ever submitted.
C3_EmptyInventoryNoSubmission ==
  (pc # "retrieve" /\ retrieve_count = 0) =>
    /\ queries = <<>>
    /\ jobs = <<>>
    /\ pc = "done"

C3_Witness ==
  pc = "done" /\ function_arns = <<>> /\ retrieve_count = 0 /\ jobs = <<>>

\* C4: the jobs submitted so far are create-table, add-partition,
\* usage-query in that order, each at most once; every job but the last
\* submitted one is terminal, so at most one job is non-terminal and no
\* statement is submitted while a later one exists.
C4_SequentialOrder ==
  /\ Len(jobs) <= Len(Sequence3)
  /\ \A j \in 1..Len(jobs) : jobs[j].sql = Sequence3[j]
  /\ \A j \in 1..(Len(jobs) - 1) : jobs[j].status \in Terminal
  /\ Cardinality({j \in 1..Len(jobs) : jobs[j].status \notin Terminal}) <= 1

C4_Witness ==
  /\ Len(jobs) = 3
  /\ jobs[3].status = "RUNNING"
  /\ pc = "sleep"

\* C5: when the used set is a subset of the inventory, the printed list is
\* the inventory minus the used set and the printed count is its length.
C5_SetDifference ==
  (Reported /\ UsedSet \subseteq InventorySet) =>
    /\ Range(difference_list) = InventorySet \ UsedSet
    /\ Len(difference_list) = Cardinality(InventorySet \ UsedSet)
    /\ unusedcount = Len(difference_list)

C7_PollThenFetch ==
  /\ \A i \in 1..(Len(observed) - 1) : observed[i] = "RUNNING"
  /\ (observed # <<>> /\ Last(observed) = "SUCCEEDED") =>
       Len(observed) =
         Cardinality({i \in 1..Len(observed) : observed[i] = "RUNNING"}) + 1
  /\ \A j \in 1..Len(jobs) :
       /\ fetched[j] <= 1
       /\ fetched[j] = 1 => outcome[j] = "SUCCEEDED"
       /\ (outcome[j] = "SUCCEEDED" /\ (j < Len(jobs) \/ pc \in
             {"extract", "done"})) => fetched[j] = 1

C7_Witness ==
  /\ jobs # <<>>
  /\ observed = <<"RUNNING", "RUNNING", "SUCCEEDED">>
  /\ fetched[cur] = 1

\* C8: the printed list holds exactly the inventory identifiers that are
\* column 0 of no row after the header, each once, in ascending
\* case-insensitive order; the header row is not extracted.
C8_UnusedList ==
  Reported =>
    /\ Range(difference_list) =
         {x \in InventorySet :
            ~ \E i \in 2..Len(UsageRows) : UsageRows[i] = x}
    /\ \A i, j \in 1..Len(difference_list) :
         i # j => difference_list[i] # difference_list[j]
    /\ \A i, j \in 1..Len(difference_list) :
         i < j => CodePoint[Lower[difference_list[i]]]
                    <= CodePoint[Lower[difference_list[j]]]
    /\ HeaderCell \notin set_of_functions_used

C8_Witness ==
  /\ Reported
  /\ difference_list = <<"a", "B">>
  /\ ~(UsedSet \subseteq InventorySet)

\* C9: the printed count is the number of distinct inventory identifiers
\* minus the number of distinct identifiers in the rows after the header.
C9_CountOfSets ==
  Reported =>
    unusedcount = Cardinality(InventorySet) - Cardinality(UsedSet)

\* the run leaves the polling loop of a job
LeavesPolling ==
  pc \in {"get_execution", "sleep"} /\ pc' \notin {"get_execution", "sleep"}

\* C10: the run leaves the polling loop of a job only on a check that
\* observes SUCCEEDED or FAILED, never while RUNNING was observed, and
\* if every submitted job eventually becomes terminal the run ends.
C10_PollUntilTerminal ==
  /\ [][LeavesPolling =>
          /\ execution_status' \in Terminal
          /\ Last(observed') \in Terminal]_vars
  /\ (\A j \in 1..Len(Sequence3) :
        [](Len(jobs) >= j =>
             <>(Len(jobs) >= j /\ jobs[j].status \in Terminal)))
       => <>(pc = "done")

C10_Witness ==
  /\ pc = "done"
  /\ Len(jobs) = 3
  /\ Len(observed) > MaxPolls
====
